---- MODULE Spec2Model ----
(***************************************************************************)
(* OneWire-UART (ow.c): the bit/byte engine, the reset/presence exchange   *)
(* and the ROM search state machine, modelled over a transport that may    *)
(* fail and a 1-Wire bus of slave devices.                                 *)
(***************************************************************************)
EXTENDS Integers, Sequences, FiniteSets, TLC

VARIABLES
    devices,      \* the ROMs of the slaves attached to the bus
    alarming,     \* the slaves that answer ALARM_SEARCH
    disrepancy,   \* ow->disrepancy
    rom,          \* ow->rom.rom, the working ROM buffer (8 octets)
    baud,         \* the baudrate the UART is set to
    calls,        \* the transport calls of the most recent operation
    res,          \* the owr_t result of the most recent operation
    rom_id,       \* the caller's ow_rom_t after the most recent search
    br,           \* the caller's output octet/bit after a byte or bit operation
    op,           \* the most recent operation and its inputs
    pre,          \* ow->disrepancy and ow->rom.rom before the most recent operation
    found,        \* the ROMs the current enumeration has returned with owOK
    start,        \* how the marker last became OW_FIRST_DEV: "init", "reset", "auto"
    clean,        \* the current enumeration used SEARCH_ROM only and met no fault
    fresh,        \* no pass has returned a device since init, search_reset or owERRNODEV
    faults,       \* transport faults injected so far
    batch,        \* the visitor, its invocations, the ROM array and the count of a batch search
    life,         \* ow->ll_drv and the init/deinit/mutex calls the session has made
    sched         \* the session mutex, the threads and the transport calls they made

vars == <<devices, alarming, disrepancy, rom, baud, calls, res, rom_id, br,
          op, pre, found, start, clean, fresh, faults, batch, life, sched>>

---------------------------------------------------------------------------
(* Program constants *)

OW_FIRST_DEV == 255
OW_LAST_DEV == 0
OW_RESET_BYTE == 240
OW_CMD_SEARCHROM == 240
OW_CMD_ALARMSEARCH == 236
BAUD_RESET == 9600
BAUD_BITS == 115200
ROM_BITS == 64

owOK == "owOK"
owERRPRESENCE == "owERRPRESENCE"
owERRNODEV == "owERRNODEV"
owERRTXRX == "owERRTXRX"
owERRBAUD == "owERRBAUD"
owERR == "owERR"

(* Bounds of the model *)

NumVarBits == 2      \* ROM bit positions in which the devices of a bus may differ
MaxDevices == 3      \* devices on one bus
MaxFaults == 1       \* transport calls that fail in one behaviour

---------------------------------------------------------------------------
(* Octets *)

Octet == 0..255

\* the one element of a singleton set; The({e(x) : x \in {v}}) is e with x
\* bound to the value of v
The(S) == CHOOSE x \in S : TRUE

Pow2(i) == 2 ^ i

\* (v >> i) & 1
Bit(v, i) == (v \div Pow2(i)) % 2

\* the ROM bit sent k-th on the wire, k = 0..63: bit (k mod 8) of octet (k div 8)
RomBit(r, k) == Bit(r[(k \div 8) + 1], k % 8)

FlipBit(r, k) ==
    [r EXCEPT ![(k \div 8) + 1] =
        IF Bit(@, k % 8) = 1 THEN @ - Pow2(k % 8) ELSE @ + Pow2(k % 8)]

RECURSIVE FlipAll(_, _)
FlipAll(r, S) ==
    IF S = {} THEN r
    ELSE LET k == CHOOSE x \in S : TRUE IN FlipAll(FlipBit(r, k), S \ {k})

\* the buses of the model: devices that differ in the first NumVarBits of VarPos
BaseRom == <<40, 255, 100, 30, 60, 45, 91, 158>>
VarPos == <<8, 0, 63, 5, 35, 9, 20, 50>>
Candidates == {FlipAll(BaseRom, S) : S \in SUBSET {VarPos[i] : i \in 1..NumVarBits}}
Buses == {D \in SUBSET Candidates : Cardinality(D) <= MaxDevices}

\* what session memory may hold where ow_init did not write it
UninitMarkers == {OW_LAST_DEV, OW_FIRST_DEV, 9}
UninitRoms == {[i \in 1..8 |-> 0], [i \in 1..8 |-> 165]}

\* the caller's ow_rom_t before a search call
CallerRom == [i \in 1..8 |-> 170]
\* the caller's out octet when the pointer is NULL
NullOut == 0 - 1

---------------------------------------------------------------------------
(* The 1-Wire bus: the slaves' side of reset, command and search slots *)

\* the octet the UART samples in a bit slot: a slave holding the line low
\* clears the first data bits, a released line reads back what was sent
SlotSample(tx, low) == IF tx = 255 /\ low THEN 252 ELSE tx

\* the octet sampled during the 9600-baud reset octet: the echo on an empty
\* bus, a presence pulse clearing one more bit otherwise
PresenceSample(devs) == IF devs = {} THEN OW_RESET_BYTE ELSE OW_RESET_BYTE - 16

\* the slaves after a reset pulse: all listening for a ROM command
BusReset(bus) == [bus EXCEPT !.phase = "cmd", !.cmdbits = <<>>, !.sel = {}, !.idx = 0]

RECURSIVE BitsToByte(_)
BitsToByte(bits) ==
    IF bits = <<>> THEN 0 ELSE Head(bits) + 2 * BitsToByte(Tail(bits))

\* the slaves once the eighth command bit has arrived
BusCommand(bus, cmd) ==
    IF cmd = OW_CMD_SEARCHROM
    THEN [bus EXCEPT !.phase = "bit", !.sel = bus.devs, !.idx = 0]
    ELSE IF cmd = OW_CMD_ALARMSEARCH
    THEN [bus EXCEPT !.phase = "bit", !.sel = bus.alarm, !.idx = 0]
    ELSE [bus EXCEPT !.phase = "idle"]

\* one bit slot at 115200 baud: 0xFF is a read / write-1 slot, 0x00 a write-0
\* slot.  Result: the slaves afterwards and the octet sampled.
BusSlot(bus, tx) ==
    LET m == IF tx = 255 THEN 1 ELSE 0 IN
    CASE bus.phase = "cmd" ->
            LET bits == Append(bus.cmdbits, m) IN
            [bus |-> IF Len(bits) = 8
                     THEN BusCommand([bus EXCEPT !.cmdbits = bits], BitsToByte(bits))
                     ELSE [bus EXCEPT !.cmdbits = bits],
             rx |-> tx]
      [] bus.phase = "bit" ->
            [bus |-> [bus EXCEPT !.phase = "cpl"],
             rx |-> SlotSample(tx, \E d \in bus.sel : RomBit(d, bus.idx) = 0)]
      [] bus.phase = "cpl" ->
            [bus |-> [bus EXCEPT !.phase = "wr"],
             rx |-> SlotSample(tx, \E d \in bus.sel : RomBit(d, bus.idx) = 1)]
      [] bus.phase = "wr" ->
            [bus |-> [bus EXCEPT !.sel = {d \in bus.sel : RomBit(d, bus.idx) = m},
                                 !.idx = bus.idx + 1,
                                 !.phase = IF bus.idx + 1 = ROM_BITS THEN "idle" ELSE "bit"],
             rx |-> tx]
      [] OTHER -> [bus |-> bus, rx |-> tx]

\* the slots of one exchange in turn, x = [bus, rx] the slaves and the
\* octets sampled so far
RECURSIVE BusSlots(_, _)
BusSlots(x, tx) ==
    IF Len(x.rx) = Len(tx) THEN x
    ELSE The({BusSlots(y, tx) :
                y \in {The({[bus |-> s.bus, rx |-> Append(x.rx, s.rx)] :
                              s \in {BusSlot(x.bus, tx[Len(x.rx) + 1])}})}})

\* what the bus makes of the octets of one exchange at the given baudrate
BusExchange(bus, rate, tx) ==
    IF rate = BAUD_RESET
    THEN IF tx = <<OW_RESET_BYTE>>
         THEN [bus |-> BusReset(bus), rx |-> <<PresenceSample(bus.devs)>>]
         ELSE [bus |-> bus, rx |-> tx]
    ELSE BusSlots([bus |-> bus, rx |-> <<>>], tx)

NewBus(devs, alarm) ==
    [devs |-> devs, alarm |-> alarm, phase |-> "idle", cmdbits |-> <<>>, sel |-> {}, idx |-> 0]

---------------------------------------------------------------------------
(* The transport capability ow_ll_drv_t.  A transport value t carries the   *)
(* UART baudrate, the bus behind it, the calls seen so far, and the inputs  *)
(* of the operation: fail, the number of the call that returns false (0:    *)
(* none); lost, whether the octets of a failed exchange never reached the   *)
(* line; script, the octets a mock transport returns instead of a bus.      *)

Call(name, rate, tx, rx, ok) ==
    [fn |-> name, rate |-> rate, tx |-> tx, rx |-> rx, ok |-> ok]

NewTransport(rate, bus, fail, lost, script) ==
    [baud |-> rate, bus |-> bus, calls |-> <<>>, fail |-> fail, lost |-> lost,
     script |-> script, ok |-> TRUE, rx |-> <<>>]

\* ll_drv->set_baudrate(rate, arg)
set_baudrate(t, rate) ==
    LET ok == Len(t.calls) + 1 # t.fail IN
    [t EXCEPT !.calls = Append(@, Call("set_baudrate", rate, <<>>, <<>>, ok)),
              !.baud = IF ok THEN rate ELSE @,
              !.ok = ok,
              !.rx = <<>>]

\* ll_drv->tx_rx(tx, rx, len, arg)
tx_rx(t, tx) ==
    LET ok == Len(t.calls) + 1 # t.fail
        onbus == ok \/ ~t.lost
    IN The({[t EXCEPT !.calls = Append(@, Call("tx_rx", t.baud, tx,
                                               IF ok THEN x.rx ELSE <<>>, ok)),
                      !.bus = x.bus,
                      !.ok = ok,
                      !.rx = IF ok THEN x.rx ELSE <<>>] :
            x \in {IF t.script # <<>>
                   THEN [bus |-> t.bus, rx |-> SubSeq(t.script, 1, Len(tx))]
                   ELSE IF onbus THEN BusExchange(t.bus, t.baud, tx)
                   ELSE [bus |-> t.bus, rx |-> tx]}})

---------------------------------------------------------------------------
(* Bit/byte engine *)

\* SlotIsOne taking every octet but 0x00 for a 1
SlotIsOne_nonzero(octet) == octet # 0

\* the received octet == 0xFF test of the bit/byte engine
SlotIsOne(octet) == octet = 255

\* send_bit(ow, btw, btr): [t, res, btr]; btr is 0 where the exchange failed
send_bit(t, btw) ==
    The({IF ~t1.ok THEN [t |-> t1, res |-> owERRTXRX, btr |-> 0]
         ELSE [t |-> t1, res |-> owOK, btr |-> IF SlotIsOne(t1.rx[1]) THEN 1 ELSE 0] :
         t1 \in {tx_rx(t, <<IF btw > 0 THEN 255 ELSE 0>>)}})

\* PresenceResult taking the echoed reset octet for a presence
PresenceResult_echo(b) == IF b = 0 THEN owERRPRESENCE ELSE owOK

\* PresenceResult taking a released line, not a line held low, for no presence
PresenceResult_high(b) == IF b = 255 \/ b = OW_RESET_BYTE THEN owERRPRESENCE ELSE owOK

\* the presence decision of ow_reset_raw on the sampled octet b
PresenceResult(b) == IF b = 0 \/ b = OW_RESET_BYTE THEN owERRPRESENCE ELSE owOK

\* ow_reset_raw returning after the exchange, the UART left at 9600 baud
ow_reset_raw_norestore(t) ==
    The({IF ~t1.ok THEN [t |-> t1, res |-> owERRBAUD]
         ELSE The({IF ~t2.ok THEN [t |-> t2, res |-> owERRTXRX]
                   ELSE [t |-> t2, res |-> PresenceResult(t2.rx[1])] :
                   t2 \in {tx_rx(t1, <<OW_RESET_BYTE>>)}}) :
         t1 \in {set_baudrate(t, BAUD_RESET)}})

\* ow_reset_raw dropping the result of the restoring set_baudrate
ow_reset_raw_unchecked(t) ==
    The({IF ~t1.ok THEN [t |-> t1, res |-> owERRBAUD]
         ELSE The({IF ~t2.ok THEN [t |-> t2, res |-> owERRTXRX]
                   ELSE The({[t |-> t3, res |-> PresenceResult(t2.rx[1])] :
                             t3 \in {set_baudrate(t2, BAUD_BITS)}}) :
                   t2 \in {tx_rx(t1, <<OW_RESET_BYTE>>)}}) :
         t1 \in {set_baudrate(t, BAUD_RESET)}})

\* ow_reset_raw restoring 115200 baud after a failed exchange as well
ow_reset_raw_restoring(t) ==
    The({IF ~t1.ok THEN [t |-> t1, res |-> owERRBAUD]
         ELSE The({IF ~t2.ok
                   THEN [t |-> set_baudrate(t2, BAUD_BITS), res |-> owERRTXRX]
                   ELSE The({IF ~t3.ok THEN [t |-> t3, res |-> owERRBAUD]
                             ELSE [t |-> t3, res |-> PresenceResult(t2.rx[1])] :
                             t3 \in {set_baudrate(t2, BAUD_BITS)}}) :
                   t2 \in {tx_rx(t1, <<OW_RESET_BYTE>>)}}) :
         t1 \in {set_baudrate(t, BAUD_RESET)}})

\* ow_reset_raw(ow): [t, res]
ow_reset_raw(t) ==
    The({IF ~t1.ok THEN [t |-> t1, res |-> owERRBAUD]
         ELSE The({IF ~t2.ok THEN [t |-> t2, res |-> owERRTXRX]
                   ELSE The({IF ~t3.ok THEN [t |-> t3, res |-> owERRBAUD]
                             ELSE [t |-> t3, res |-> PresenceResult(t2.rx[1])] :
                             t3 \in {set_baudrate(t2, BAUD_BITS)}}) :
                   t2 \in {tx_rx(t1, <<OW_RESET_BYTE>>)}}) :
         t1 \in {set_baudrate(t, BAUD_RESET)}})

\* ByteToSlots with the most significant bit first
ByteToSlots_msb(btw) == [i \in 1..8 |-> IF Bit(btw, 8 - i) = 1 THEN 255 ELSE 0]

\* tr[i] = (btw & (1 << i)) ? 0xFF : 0x00, i = 0..7
ByteToSlots(btw) == [i \in 1..8 |-> IF Bit(btw, i - 1) = 1 THEN 255 ELSE 0]

RECURSIVE SlotsToByteFrom(_, _)
SlotsToByteFrom(tr, i) ==
    IF i > 7 THEN 0
    ELSE (IF SlotIsOne(tr[i + 1]) THEN Pow2(i) ELSE 0) + SlotsToByteFrom(tr, i + 1)

\* r |= 0x01 << i for every tr[i] == 0xFF, i = 0..7
SlotsToByte(tr) == SlotsToByteFrom(tr, 0)

\* ow_write_byte_ex_raw(ow, btw, br): [t, res, br]; wantbr is br != NULL
ow_write_byte_ex_raw(t, btw, wantbr) ==
    The({IF ~t1.ok
         THEN [t |-> t1, res |-> owERRTXRX, br |-> IF wantbr THEN 0 ELSE NullOut]
         ELSE [t |-> t1, res |-> owOK,
               br |-> IF wantbr THEN SlotsToByte(t1.rx) ELSE NullOut] :
         t1 \in {tx_rx(t, ByteToSlots(btw))}})

\* ow_read_byte_ex_raw(ow, br)
ow_read_byte_ex_raw(t) == ow_write_byte_ex_raw(t, 255, TRUE)

\* ow_read_bit_ex_raw(ow, br)
ow_read_bit_ex_raw(t) == send_bit(t, 1)

---------------------------------------------------------------------------
(* ROM search *)

\* ow_search_reset_raw leaving a marker that is not 0 as it is
ow_search_reset_raw_lazy(s) ==
    IF s.disrepancy = OW_LAST_DEV THEN [s EXCEPT !.disrepancy = OW_FIRST_DEV] ELSE s

\* ow_search_reset_raw(ow) on the session value s = [disrepancy, rom]
ow_search_reset_raw(s) == [s EXCEPT !.disrepancy = OW_FIRST_DEV]

\* ForceOne without the branch that follows the previous pass
ForceOne_new_only(id_bit_number, marker, idlsb) == id_bit_number < marker

\* ForceOne with the marker position itself forced to 1 again
ForceOne_le(id_bit_number, marker, idlsb) ==
    id_bit_number <= marker \/ (idlsb = 1 /\ marker # id_bit_number)

\* the branch taken where both read slots sampled 0: TRUE when the search
\* forces the written bit to 1 and records the position as next_disrepancy
ForceOne(id_bit_number, marker, idlsb) ==
    id_bit_number < marker \/ (idlsb = 1 /\ marker # id_bit_number)

\* Direction taking 0 first at a new discrepancy and 1 on the way back
Direction_zero_first(b, b_cpl, id_bit_number, marker, idlsb, next_disrepancy) ==
    IF b = 0 /\ b_cpl = 0
    THEN IF marker # OW_FIRST_DEV
            /\ (id_bit_number = marker \/ (id_bit_number > marker /\ idlsb = 1))
         THEN [b |-> 1, next_disrepancy |-> next_disrepancy]
         ELSE [b |-> 0, next_disrepancy |-> id_bit_number]
    ELSE [b |-> b, next_disrepancy |-> next_disrepancy]

\* the classification of (b, b_cpl) at one position: the bit written back
\* and the next_disrepancy afterwards
Direction(b, b_cpl, id_bit_number, marker, idlsb, next_disrepancy) ==
    IF b = 0 /\ b_cpl = 0 /\ ForceOne(id_bit_number, marker, idlsb)
    THEN [b |-> 1, next_disrepancy |-> id_bit_number]
    ELSE [b |-> b, next_disrepancy |-> next_disrepancy]

\* ShiftIn entering the bit at the least significant end
ShiftIn_lsb(octet, b) == ((octet * 2) % 256) + b

\* *id = (*id >> 0x01) | (b << 0x07)
ShiftIn(octet, b) == (octet \div 2) + b * 128

\* the octet of ow->rom.rom that id points to at id_bit_number
IdIndex(id_bit_number) == ((ROM_BITS - id_bit_number) \div 8) + 1

\* one pass of the inner loop body at id_bit_number.  st = [t, rom,
\* id_bit_number, next_disrepancy, exit]; exit is "run" while the loop goes
\* on, "txrx" after return owERRTXRX, "out" after goto out
SearchBit(st, marker) ==
    The({
      IF r1.res # owOK THEN [st EXCEPT !.t = r1.t, !.exit = "txrx"]
      ELSE The({
        IF r2.res # owOK THEN [st EXCEPT !.t = r2.t, !.exit = "txrx"]
        ELSE IF r1.btr = 1 /\ r2.btr = 1 THEN [st EXCEPT !.t = r2.t, !.exit = "out"]
        ELSE The({
          [st EXCEPT !.t = send_bit(r2.t, d.b).t,
                     !.rom = [st.rom EXCEPT ![IdIndex(st.id_bit_number)] = ShiftIn(@, d.b)],
                     !.next_disrepancy = d.next_disrepancy,
                     !.id_bit_number = st.id_bit_number - 1] :
          d \in {Direction(r1.btr, r2.btr, st.id_bit_number, marker,
                           st.rom[IdIndex(st.id_bit_number)] % 2,
                           st.next_disrepancy)}}) :
        r2 \in {send_bit(r1.t, 1)}}) :
      r1 \in {send_bit(st.t, 1)}})

\* for (uint8_t j = 8; j > 0; --j, --id_bit_number) ...
RECURSIVE SearchByte(_, _, _)
SearchByte(st, marker, j) ==
    IF st.exit # "run" \/ j = 0 THEN st
    ELSE The({SearchByte(nxt, marker, j - 1) : nxt \in {SearchBit(st, marker)}})

\* for (id_bit_number = 64; id_bit_number > 0;) ... ++id
RECURSIVE SearchLoop(_, _)
SearchLoop(st, marker) ==
    IF st.exit # "run" \/ st.id_bit_number = 0 THEN st
    ELSE The({SearchLoop(nxt, marker) : nxt \in {SearchByte(st, marker, 8)}})

\* LastDeviceReset leaving the marker at 0
LastDeviceReset_keep(s) == s

\* the session after the "last device" check found ow->disrepancy == 0
LastDeviceReset(s) == ow_search_reset_raw(s)

\* ow_search_with_command_raw(ow, cmd, rom_id): [s, t, res, rom_id]
ow_search_with_command_raw(s, t, cmd, caller) ==
    IF s.disrepancy = 0
    THEN [s |-> LastDeviceReset(s), t |-> t, res |-> owERRNODEV, rom_id |-> caller]
    ELSE The({
      IF r.res # owOK THEN [s |-> s, t |-> r.t, res |-> r.res, rom_id |-> caller]
      ELSE The({
        IF st.exit = "txrx"
        THEN [s |-> [s EXCEPT !.rom = st.rom], t |-> st.t, res |-> owERRTXRX,
              rom_id |-> caller]
        ELSE [s |-> [disrepancy |-> st.next_disrepancy, rom |-> st.rom],
              t |-> st.t,
              res |-> IF st.id_bit_number = 0 THEN owOK ELSE owERRNODEV,
              rom_id |-> st.rom] :
        st \in {The({SearchLoop([t |-> w.t, rom |-> s.rom,
                                 id_bit_number |-> ROM_BITS,
                                 next_disrepancy |-> OW_LAST_DEV, exit |-> "run"],
                                s.disrepancy) :
                     w \in {ow_write_byte_ex_raw(r.t, cmd, FALSE)}})}}) :
      r \in {ow_reset_raw(t)}})

\* ow_search_raw(ow, rom_id)
ow_search_raw(s, t, caller) == ow_search_with_command_raw(s, t, OW_CMD_SEARCHROM, caller)

---------------------------------------------------------------------------
(* State machine *)

Session == [disrepancy |-> disrepancy, rom |-> rom]

Op(name, arg, want, fail, lost) ==
    [name |-> name, arg |-> arg, want |-> want, fail |-> fail, lost |-> lost]

\* the transport calls a fault may hit in a search pass: the reset, the
\* command, the first position, the second position (inside the first octet),
\* a position where devices differ, the last slot
FailPoints == {1, 2, 3, 4, 5, 6, 7, 8, 29, 30, 31, 196}

\* the octets a mock transport returns for an 8-octet exchange: 0xFF in the
\* slots of mask, low elsewhere
Script(mask, low) == [i \in 1..8 |-> IF Bit(mask, i - 1) = 1 THEN 255 ELSE low]
LowOctets == {0, 254}

\* no batch search made yet: no visitor, no invocation, an empty ROM array
NoBatch ==
    [at |-> NullOut, ret |-> owOK, visits |-> <<>>, rom_id_arr |-> <<>>,
     rom_len |-> 0, roms_found |-> NullOut, n |-> 0]

NumThreads == 2      \* threads that share the session

Threads == 1..NumThreads

\* ow->mutex free
NoThread == 0

\* a thread before it calls the session: pc its position, name the operation
\* it calls, res and b the locals of the wrapper and of ow_reset_raw, i the
\* index of the batch search
IdleThread == [pc |-> "idle", name |-> "none", res |-> owOK, b |-> 0, i |-> 0]

\* no thread has called the session yet
NoSched == [mutex |-> NoThread, thr |-> [th \in Threads |-> IdleThread], trace |-> <<>>]

\* the state after ow_init returned owOK: ow_init writes ow->arg and
\* ow->ll_drv only, the marker and the ROM buffer hold what memory held
Init ==
    /\ devices \in Buses
    /\ alarming \in {{}, devices}
    /\ disrepancy \in UninitMarkers
    /\ rom \in UninitRoms
    /\ baud = BAUD_BITS
    /\ calls = <<>>
    /\ res = owOK
    /\ rom_id = CallerRom
    /\ br = NullOut
    /\ op = Op("init", 0, FALSE, 0, FALSE)
    /\ pre = [disrepancy |-> disrepancy, rom |-> rom]
    /\ found = <<>>
    /\ start = "init"
    /\ clean = FALSE
    /\ fresh = TRUE
    /\ faults = 0
    /\ batch = NoBatch
    /\ life = [ll_drv |-> "set", os |-> TRUE, before |-> <<>>,
               log |-> <<"init", "mutex_create">>, deinits |-> 0]
    /\ sched = NoSched

\* ow_search_reset(ow)
ow_search_reset ==
    LET s == ow_search_reset_raw(Session) IN
    /\ disrepancy' = s.disrepancy
    /\ rom' = s.rom
    /\ calls' = <<>>
    /\ res' = owOK
    /\ op' = Op("search_reset", 0, FALSE, 0, FALSE)
    /\ pre' = Session
    /\ found' = <<>>
    /\ start' = "reset"
    /\ clean' = TRUE
    /\ fresh' = TRUE
    /\ UNCHANGED <<devices, alarming, baud, rom_id, br, faults, batch, life, sched>>

\* the effect of one search call with result r on the state
SearchEffect(name, cmd, fail, lost, r) ==
    LET faulted == fail # 0 /\ fail <= Len(r.t.calls)
        plain == cmd = OW_CMD_SEARCHROM /\ ~faulted
        auto == disrepancy = OW_LAST_DEV
        first == disrepancy = OW_FIRST_DEV
        sofar == IF first THEN <<>> ELSE found
    IN /\ disrepancy' = r.s.disrepancy
       /\ rom' = r.s.rom
       /\ baud' = r.t.baud
       /\ calls' = r.t.calls
       /\ res' = r.res
       /\ rom_id' = r.rom_id
       /\ op' = Op(name, cmd, TRUE, IF faulted THEN fail ELSE 0, faulted /\ lost)
       /\ pre' = Session
       /\ found' = IF auto THEN found
                   ELSE IF r.res = owOK THEN Append(sofar, r.rom_id) ELSE sofar
       /\ start' = IF auto THEN "auto" ELSE start
       /\ clean' = IF auto THEN clean ELSE IF first THEN plain ELSE clean /\ plain
       /\ fresh' = IF r.res = owOK THEN FALSE ELSE IF r.res = owERRNODEV THEN TRUE ELSE fresh
       /\ faults' = IF faulted THEN faults + 1 ELSE faults
       /\ UNCHANGED <<devices, alarming, br, batch, life, sched>>

\* one search call: cmd, and the fault the transport injects (fail = 0: none)
SearchCall(name, cmd, fail, lost) ==
    /\ Len(found) <= MaxDevices
    /\ \E t \in {NewTransport(baud, NewBus(devices, alarming), fail, lost, <<>>)} :
       \E r \in {IF name = "search"
                 THEN ow_search_raw(Session, t, CallerRom)
                 ELSE ow_search_with_command_raw(Session, t, cmd, CallerRom)} :
           SearchEffect(name, cmd, fail, lost, r)

\* ow_search(ow, rom_id) on a working transport
ow_search == SearchCall("search", OW_CMD_SEARCHROM, 0, FALSE)

\* ow_search_with_command(ow, cmd, rom_id) on a working transport
ow_search_with_command ==
    \E cmd \in {OW_CMD_ALARMSEARCH} :
        SearchCall("search_with_command", cmd, 0, FALSE)

\* ow_search(ow, rom_id) where one transport call returns false
ow_search_fault ==
    \E cmd \in {OW_CMD_SEARCHROM}, fail \in FailPoints, lost \in BOOLEAN :
        /\ faults < MaxFaults
        /\ SearchCall("search", cmd, fail, lost)

Next == ow_search_reset \/ ow_search \/ ow_search_with_command

Spec == Init /\ [][Next]_vars

NextFault == Next \/ ow_search_fault

SpecFault == Init /\ [][NextFault]_vars

---------------------------------------------------------------------------
(* Reset and the byte engine over a mock transport that returns scripted   *)
(* octets.  These operations neither read nor write the session.           *)

InitMock ==
    /\ Init
    /\ devices = {}
    /\ disrepancy = OW_FIRST_DEV
    /\ rom = [i \in 1..8 |-> 0]

\* the effect of a reset, byte or bit call with result r on the state
EngineEffect(o, r, out) ==
    /\ baud' = r.t.baud
    /\ calls' = r.t.calls
    /\ res' = r.res
    /\ br' = out
    /\ op' = o
    /\ pre' = Session
    /\ UNCHANGED <<devices, alarming, disrepancy, rom, rom_id, found, start, clean,
                   fresh, faults, batch, life, sched>>

\* ow_reset(ow): the transport samples the octet sample; call fail returns false
ow_reset ==
    \E sample \in Octet, fail \in 0..3 :
        \E r \in {ow_reset_raw(NewTransport(baud, NewBus(devices, alarming), fail,
                                            FALSE, <<sample>>))} :
            EngineEffect(Op("reset", sample, FALSE, fail, FALSE), r, NullOut)

SpecReset == InitMock /\ [][ow_reset]_vars

\* the inputs of a write_byte call: every octet against every received
\* pattern, and every octet looped back, with and without br, failing or not
WriteInputs ==
    {[btw |-> b, want |-> TRUE, mask |-> m, low |-> l, fail |-> 0] :
        b \in Octet, m \in Octet, l \in LowOctets}
    \cup {[btw |-> b, want |-> w, mask |-> b, low |-> 0, fail |-> f] :
        b \in Octet, w \in BOOLEAN, f \in {0, 1}}

\* ow_write_byte_ex(ow, btw, br)
ow_write_byte_ex ==
    \E in \in WriteInputs :
        \E r \in {ow_write_byte_ex_raw(
                     NewTransport(baud, NewBus(devices, alarming), in.fail, FALSE,
                                  Script(in.mask, in.low)),
                     in.btw, in.want)} :
            EngineEffect(Op("write_byte", in.btw, in.want, in.fail, FALSE), r, r.br)

\* ow_read_byte_ex(ow, br)
ow_read_byte_ex ==
    \E mask \in Octet, low \in LowOctets, fail \in {0, 1} :
        \E r \in {ow_read_byte_ex_raw(
                     NewTransport(baud, NewBus(devices, alarming), fail, FALSE,
                                  Script(mask, low)))} :
            EngineEffect(Op("read_byte", 255, TRUE, fail, FALSE), r, r.br)

\* ow_read_bit_ex(ow, br)
ow_read_bit_ex ==
    \E sample \in Octet, fail \in {0, 1} :
        \E r \in {ow_read_bit_ex_raw(
                     NewTransport(baud, NewBus(devices, alarming), fail, FALSE,
                                  <<sample>>))} :
            EngineEffect(Op("read_bit", 1, TRUE, fail, FALSE), r, r.btr)

\* one byte or bit call on the session just initialised
NextByte ==
    /\ op.name = "init"
    /\ (ow_write_byte_ex \/ ow_read_byte_ex \/ ow_read_bit_ex)

SpecByte == InitMock /\ [][NextByte]_vars

---------------------------------------------------------------------------
(* Properties of the search *)

SeqSet(q) == {q[i] : i \in 1..Len(q)}

Distinct(q) == \A i, j \in 1..Len(q) : i < j => q[i] # q[j]

IsSearch == op.name \in {"search", "search_with_command"}

\* a before b where the 64 bits are compared in wire order, the first bit
\* sent the most significant
WireLess(a, b) ==
    \E k \in 0..(ROM_BITS - 1) :
        /\ \A m \in 0..(k - 1) : RomBit(a, m) = RomBit(b, m)
        /\ RomBit(a, k) < RomBit(b, k)

\* a before b as 64-bit little-endian integers: octet 7 the most significant
LELess(a, b) ==
    \E j \in 1..8 :
        /\ \A m \in (j + 1)..8 : a[m] = b[m]
        /\ a[j] < b[j]

\* the positions in which two ROMs differ
DiffBits(a, b) == {k \in 0..(ROM_BITS - 1) : RomBit(a, k) # RomBit(b, k)}

\* the device that is last in wire order
WireMax(D) == CHOOSE d \in D : \A e \in D \ {d} : WireLess(e, d)

\* the bus holds two devices that differ in one bit only
SingleBitPair ==
    /\ Cardinality(devices) = 2
    /\ \A a, b \in devices : a # b => Cardinality(DiffBits(a, b)) = 1

\* C1: on a bus of distinct devices, search_reset followed by search calls
\* returns owOK once per device, each time with the ROM of a device on the
\* bus, none twice and none missed, and owERRNODEV only after all of them.
C1_CompleteEnumeration ==
    (clean /\ devices # {}) =>
        /\ SeqSet(found) \subseteq devices
        /\ Distinct(found)
        /\ IsSearch => res \in {owOK, owERRNODEV}
        /\ (IsSearch /\ res = owOK) => (found # <<>> /\ rom_id = found[Len(found)])
        /\ (IsSearch /\ res = owERRNODEV) => SeqSet(found) = devices

C1_Witness ==
    /\ clean /\ start = "reset" /\ Cardinality(devices) = 3
    /\ op.name = "search" /\ res = owOK /\ SeqSet(found) = devices

\* C2 as claimed: the ROMs of one enumeration come in strictly increasing
\* order as little-endian integers.
C2_IncreasingLittleEndian ==
    clean => \A i, j \in 1..Len(found) : i < j => LELess(found[i], found[j])

\* C2 as amended: the ROMs of one enumeration come in strictly decreasing wire
\* order (bit 0 of octet 0 the most significant); of two devices that differ
\* in one bit the one with 1 there comes first.
C2_DecreasingWireOrder ==
    clean =>
        /\ \A i, j \in 1..Len(found) : i < j => WireLess(found[j], found[i])
        /\ (SingleBitPair /\ Len(found) = 2) =>
               \A k \in DiffBits(found[1], found[2]) :
                   RomBit(found[1], k) = 1 /\ RomBit(found[2], k) = 0

C2_Witness ==
    /\ clean /\ SingleBitPair /\ Len(found) = 2
    /\ op.name = "search" /\ res = owOK

\* C3 as claimed: the first search after search_reset on an empty bus returns
\* owERRNODEV.
C3_EmptyBusNoDev ==
    (IsSearch /\ devices = {} /\ pre.disrepancy = OW_FIRST_DEV) => res = owERRNODEV

\* C3 as amended: the first search after search_reset on an empty bus returns
\* owERRPRESENCE after the three calls of the reset, with no bit slot
\* exchanged, the marker and the caller's ROM untouched.
C3_EmptyBusPresence ==
    (IsSearch /\ devices = {} /\ pre.disrepancy = OW_FIRST_DEV /\ op.fail = 0) =>
        /\ res = owERRPRESENCE
        /\ Len(calls) = 3
        /\ calls[2].rx = <<OW_RESET_BYTE>>
        /\ disrepancy = OW_FIRST_DEV
        /\ rom_id = CallerRom

C3_Witness ==
    /\ op.name = "search" /\ devices = {} /\ start = "reset"
    /\ pre.disrepancy = OW_FIRST_DEV /\ res = owERRPRESENCE

\* C4: the pass that returns the last device leaves the marker at 0; the next
\* search returns owERRNODEV with no transport call and the caller's ROM
\* unwritten and sets the marker to 0xFF; the enumeration that follows begins
\* with the same device as one begun by search_reset.
C4_AutoReset ==
    /\ (IsSearch /\ pre.disrepancy = OW_LAST_DEV) =>
           /\ res = owERRNODEV
           /\ calls = <<>>
           /\ rom_id = CallerRom
           /\ disrepancy = OW_FIRST_DEV
           /\ rom = pre.rom
    /\ (clean /\ IsSearch /\ res = owOK) =>
           (disrepancy = OW_LAST_DEV <=> SeqSet(found) = devices)
    /\ (clean /\ found # <<>>) => found[1] = WireMax(devices)

C4_Witness ==
    /\ clean /\ start = "auto" /\ Cardinality(devices) >= 2
    /\ op.name = "search" /\ res = owOK /\ Len(found) = 1

\* the devices that answer the command of the most recent search
Answering == IF op.arg = OW_CMD_ALARMSEARCH THEN alarming ELSE devices

\* the previous search call returned owOK with the final device of the tree
FinalReturned == IsSearch /\ res = owOK /\ Answering \subseteq SeqSet(found)

\* C5: the marker is 0xFF exactly when the next search must begin a fresh
\* enumeration, and 0x00 exactly when the previous search returned owOK with
\* the final device.
C5_MarkerInvariant ==
    /\ disrepancy = OW_FIRST_DEV <=> fresh
    /\ disrepancy = OW_LAST_DEV <=> FinalReturned

---------------------------------------------------------------------------
(* Properties of reset and of the byte engine *)

\* C6: a reset that returns owOK made exactly set_baudrate(9600), a one-octet
\* tx_rx sending 0xF0, set_baudrate(115200), in this order, and leaves the
\* UART at 115200 baud.
C6_ResetCalls ==
    (op.name = "reset" /\ res = owOK) =>
        /\ calls = <<Call("set_baudrate", BAUD_RESET, <<>>, <<>>, TRUE),
                     Call("tx_rx", BAUD_RESET, <<OW_RESET_BYTE>>, <<op.arg>>, TRUE),
                     Call("set_baudrate", BAUD_BITS, <<>>, <<>>, TRUE)>>
        /\ baud = BAUD_BITS

C6_Witness == op.name = "reset" /\ res = owOK /\ op.arg = 224 /\ Len(calls) = 3

\* C7: when its three transport calls succeed, reset returns owERRPRESENCE
\* for the sampled octets 0x00 and 0xF0 and owOK for every other octet.
C7_Presence ==
    (op.name = "reset" /\ op.fail = 0) =>
        /\ op.arg \in {0, 240} => res = owERRPRESENCE
        /\ op.arg \in (1..239) \cup (241..255) => res = owOK

C7_Witness == op.name = "reset" /\ op.fail = 0 /\ op.arg = 80 /\ res = owOK

\* C8: where set_baudrate(9600) fails reset returns owERRBAUD having made no
\* other call; where set_baudrate(115200) fails after the exchange reset
\* returns owERRBAUD whatever was sampled.
C8_BaudFailure ==
    /\ (op.name = "reset" /\ op.fail = 1) =>
           /\ res = owERRBAUD
           /\ calls = <<Call("set_baudrate", BAUD_RESET, <<>>, <<>>, FALSE)>>
    /\ (op.name = "reset" /\ op.fail = 3) =>
           /\ res = owERRBAUD
           /\ Len(calls) = 3
           /\ calls[2].fn = "tx_rx" /\ calls[2].ok
           /\ calls[3] = Call("set_baudrate", BAUD_BITS, <<>>, <<>>, FALSE)

C8_Witness ==
    /\ op.name = "reset" /\ op.fail = 3 /\ op.arg = 80
    /\ res = owERRBAUD /\ Len(calls) = 3

\* the octet whose bit i is set where slot i holds 0xFF
RECURSIVE Decode(_, _)
Decode(slots, i) ==
    IF i > Len(slots) THEN 0
    ELSE (IF slots[i] = 255 THEN 1 ELSE 0) + 2 * Decode(slots, i + 1)

\* C9: write_byte(b) makes one tx_rx of 8 octets, octet i being 0xFF where
\* bit i of b is set and 0x00 where it is not, and no set_baudrate.
C9_WriteEncoding ==
    op.name = "write_byte" =>
        /\ Len(calls) = 1
        /\ calls[1].fn = "tx_rx"
        /\ Len(calls[1].tx) = 8
        /\ \A i \in 1..8 : calls[1].tx[i] \in {0, 255}
        /\ Decode(calls[1].tx, 1) = op.arg

C9_Witness == op.name = "write_byte" /\ op.arg = 165 /\ res = owOK /\ Len(calls) = 1

\* C10: the octet a successful read_byte or write_byte hands back has bit i
\* set exactly where received octet i is 0xFF; read_byte sends eight 0xFF; on
\* a transport that returns what was sent write_byte(b) hands back b.
C10_ReadDecoding ==
    /\ (op.name \in {"write_byte", "read_byte"} /\ op.want /\ res = owOK) =>
           /\ br \in Octet
           /\ \A i \in 0..7 :
                  (br \div Pow2(i)) % 2 = 1 <=> calls[1].rx[i + 1] = 255
    /\ op.name = "read_byte" =>
           /\ Len(calls) = 1
           /\ calls[1].tx = <<255, 255, 255, 255, 255, 255, 255, 255>>
    /\ (op.name = "write_byte" /\ op.want /\ res = owOK
        /\ calls[1].rx = calls[1].tx) => br = op.arg

C10_Witness ==
    /\ op.name = "read_byte" /\ res = owOK /\ br = 165
    /\ calls[1].rx = <<255, 254, 255, 254, 254, 255, 254, 255>>

---------------------------------------------------------------------------
(* Batch search: ow_search_with_command_callback and                       *)
(* ow_search_devices_with_command_raw                                      *)

\* the non-OK members of owr_t
Errors == {owERR, owERRPRESENCE, owERRNODEV, owERRTXRX, owERRBAUD}

\* rom_id == NULL in a visitor call
NullRom == <<>>

\* the visitor func(ow, rom_id, i, arg) of the model: owOK at every index
\* but at, where it returns ret
Visitor(at, ret, i) == IF i = at THEN ret ELSE owOK

\* BatchResult handing the result of the last search back as it is
BatchResult_raw(r) == r

\* if (res == owERRNODEV) res = owOK
BatchResult(r) == IF r = owERRNODEV THEN owOK ELSE r

\* the for loop of ow_search_with_command_callback.  x = [s, t, res, i,
\* rom_id, visits, last]: res the loop variable, last the result of the most
\* recent search pass
RECURSIVE CallbackLoop(_, _, _, _)
CallbackLoop(x, cmd, at, ret) ==
    IF x.res # owOK THEN x
    ELSE The({
      IF r.res # owOK
      THEN [x EXCEPT !.s = r.s, !.t = r.t, !.res = r.res, !.rom_id = r.rom_id,
                     !.last = r.res]
      ELSE The({
        IF v # owOK
        THEN [x EXCEPT !.s = r.s, !.t = r.t, !.res = v, !.rom_id = r.rom_id,
                       !.last = owOK,
                       !.visits = Append(@, [rom |-> r.rom_id, i |-> x.i])]
        ELSE CallbackLoop([x EXCEPT !.s = r.s, !.t = r.t, !.res = owOK,
                                    !.rom_id = r.rom_id, !.last = owOK,
                                    !.i = x.i + 1,
                                    !.visits = Append(@, [rom |-> r.rom_id, i |-> x.i])],
                          cmd, at, ret) :
        v \in {Visitor(at, ret, x.i)}}) :
      r \in {ow_search_with_command_raw(x.s, x.t, cmd, x.rom_id)}})

\* ow_search_with_command_callback(ow, cmd, roms_found, func, arg):
\* [s, t, res, roms_found, visits, last]
ow_search_with_command_callback(s, t, cmd, at, ret) ==
    The({[s |-> x.s, t |-> x.t, res |-> BatchResult(x.res), roms_found |-> x.i,
          visits |-> Append(x.visits, [rom |-> NullRom, i |-> x.i]),
          last |-> x.last] :
         x \in {CallbackLoop([s |-> ow_search_reset_raw(s), t |-> t, res |-> owOK,
                              i |-> 0, rom_id |-> CallerRom, visits |-> <<>>,
                              last |-> owERRNODEV],
                             cmd, at, ret)}})

\* DevicesResult handing the result of the last search back as it is
DevicesResult_raw(r, cnt) == r

\* if (res == owERRNODEV && cnt > 0) res = owOK
DevicesResult(r, cnt) == IF r = owERRNODEV /\ cnt > 0 THEN owOK ELSE r

\* the for loop of ow_search_devices_with_command_raw.  x = [s, t, res, cnt,
\* rom_id_arr, last]
RECURSIVE DevicesLoop(_, _, _)
DevicesLoop(x, cmd, rom_len) ==
    IF x.cnt >= rom_len THEN x
    ELSE The({
      IF r.res # owOK
      THEN [x EXCEPT !.s = r.s, !.t = r.t, !.res = r.res, !.last = r.res,
                     !.rom_id_arr[x.cnt + 1] = r.rom_id]
      ELSE DevicesLoop([x EXCEPT !.s = r.s, !.t = r.t, !.res = owOK, !.last = owOK,
                                 !.rom_id_arr[x.cnt + 1] = r.rom_id,
                                 !.cnt = x.cnt + 1],
                       cmd, rom_len) :
      r \in {ow_search_with_command_raw(x.s, x.t, cmd, x.rom_id_arr[x.cnt + 1])}})

\* ow_search_devices_with_command_raw(ow, cmd, rom_id_arr, rom_len, roms_found):
\* [s, t, res, roms_found, rom_id_arr, last]
ow_search_devices_with_command_raw(s, t, cmd, rom_len) ==
    The({[s |-> x.s, t |-> x.t, res |-> DevicesResult(x.res, x.cnt),
          roms_found |-> x.cnt, rom_id_arr |-> x.rom_id_arr, last |-> x.last] :
         x \in {DevicesLoop([s |-> ow_search_reset_raw(s), t |-> t, res |-> owOK,
                             cnt |-> 0, rom_id_arr |-> [i \in 1..rom_len |-> CallerRom],
                             last |-> owERRNODEV],
                            cmd, rom_len)}})

\* the effect of a batch search with result r, which returned the ROMs roms
BatchEffect(name, r, roms, b) ==
    /\ disrepancy' = r.s.disrepancy
    /\ rom' = r.s.rom
    /\ baud' = r.t.baud
    /\ calls' = r.t.calls
    /\ res' = r.res
    /\ op' = Op(name, OW_CMD_SEARCHROM, TRUE, 0, FALSE)
    /\ pre' = Session
    /\ found' = roms
    /\ start' = IF r.last = owERRNODEV /\ roms # <<>> THEN "auto" ELSE "batch"
    /\ clean' = TRUE
    /\ fresh' = IF r.last = owOK THEN FALSE
                ELSE IF r.last = owERRNODEV THEN TRUE ELSE roms = <<>>
    /\ batch' = b
    /\ UNCHANGED <<devices, alarming, rom_id, br, faults, life, sched>>

\* the visitors of the model: one that never aborts, and one for every index
\* and every non-OK value
Visitors ==
    {[at |-> NullOut, ret |-> owOK]}
    \cup {[at |-> k, ret |-> e] : k \in 0..(MaxDevices - 1), e \in Errors}

\* ow_search_with_callback(ow, roms_found, func, arg)
ow_search_with_callback ==
    \E v \in Visitors :
        /\ batch.n = 0
        /\ op.name = "init"
        /\ \E t \in {NewTransport(baud, NewBus(devices, alarming), 0, FALSE, <<>>)} :
           \E r \in {ow_search_with_command_callback(Session, t, OW_CMD_SEARCHROM,
                                                     v.at, v.ret)} :
               BatchEffect("search_with_callback", r,
                           [k \in 1..(Len(r.visits) - 1) |-> r.visits[k].rom],
                           [at |-> v.at, ret |-> v.ret, visits |-> r.visits,
                            rom_id_arr |-> <<>>, rom_len |-> 0,
                            roms_found |-> r.roms_found, n |-> batch.n + 1])

\* ow_search_devices(ow, rom_id_arr, rom_len, roms_found)
ow_search_devices ==
    \E rom_len \in 1..(MaxDevices + 1) :
        /\ batch.n = 0
        /\ op.name = "init"
        /\ \E t \in {NewTransport(baud, NewBus(devices, alarming), 0, FALSE, <<>>)} :
           \E r \in {ow_search_devices_with_command_raw(Session, t, OW_CMD_SEARCHROM,
                                                        rom_len)} :
               BatchEffect("search_devices", r,
                           SubSeq(r.rom_id_arr, 1, r.roms_found),
                           [at |-> NullOut, ret |-> owOK, visits |-> <<>>,
                            rom_id_arr |-> r.rom_id_arr, rom_len |-> rom_len,
                            roms_found |-> r.roms_found, n |-> batch.n + 1])

\* the session just initialised, its marker a stale value that is neither
\* 0x00 nor 0xFF
InitBatch ==
    /\ Init
    /\ alarming = {}
    /\ rom = [i \in 1..8 |-> 0]
    /\ disrepancy \notin {OW_FIRST_DEV, OW_LAST_DEV}

\* one batch search on the session just initialised, then search calls
NextBatch == ow_search_with_callback \/ ow_search_devices \/ ow_search

SpecBatch == InitBatch /\ [][NextBatch]_vars

---------------------------------------------------------------------------
(* Properties of the batch searches *)

\* the ROMs of D in the order an enumeration returns them: decreasing in
\* wire order
RECURSIVE EnumOrder(_)
EnumOrder(D) ==
    IF D = {} THEN <<>>
    ELSE <<WireMax(D)>> \o EnumOrder(D \ {WireMax(D)})

\* C11: on a bus of n >= 1 devices a batch search whose visitor always
\* returns owOK invokes it n + 1 times, with the n ROMs of the enumeration and
\* the indices 0..n-1 in order and then with a null ROM and index n, returns
\* owOK and sets roms_found to n.
C11_CallbackVisits ==
    (op.name = "search_with_callback" /\ batch.at = NullOut /\ devices # {}) =>
        LET n == Cardinality(devices) IN
        /\ Len(batch.visits) = n + 1
        /\ \A k \in 1..n :
               /\ batch.visits[k].i = k - 1
               /\ batch.visits[k].rom = EnumOrder(devices)[k]
        /\ batch.visits[n + 1] = [rom |-> NullRom, i |-> n]
        /\ res = owOK
        /\ batch.roms_found = n

C11_Witness ==
    /\ op.name = "search_with_callback" /\ batch.at = NullOut
    /\ Cardinality(devices) = 3 /\ Len(batch.visits) = 4 /\ res = owOK

\* the search passes of the most recent operation that reached the bus
Passes ==
    Cardinality({k \in 1..Len(calls) :
                    calls[k].fn = "set_baudrate" /\ calls[k].rate = BAUD_RESET})

\* C12: where the visitor returns a non-OK value e for the ROM of index k the
\* batch makes no further search pass, invokes the visitor once more with a
\* null ROM, and returns e, for every non-OK e.
C12_AbortReturnsValue ==
    (op.name = "search_with_callback" /\ batch.at # NullOut
     /\ batch.at < Cardinality(devices)) =>
        /\ Len(batch.visits) = batch.at + 2
        /\ batch.visits[batch.at + 1].i = batch.at
        /\ batch.visits[batch.at + 1].rom = EnumOrder(devices)[batch.at + 1]
        /\ batch.visits[batch.at + 2].rom = NullRom
        /\ Passes = batch.at + 1
        /\ res = batch.ret

Min(a, b) == IF a < b THEN a ELSE b

\* C13: search_devices with rom_len slots on a bus of n >= 1 devices fills the
\* first min(rom_len, n) slots with the first ROMs of the enumeration, leaves
\* the other slots alone, sets roms_found to min(rom_len, n) and returns owOK;
\* where rom_len < n the search calls that follow continue the enumeration
\* with the next device, and return owERRNODEV only after the last.
C13_SearchDevices ==
    LET n == Cardinality(devices)
        m == Min(batch.rom_len, n)
    IN /\ (op.name = "search_devices" /\ n >= 1) =>
              /\ res = owOK
              /\ batch.roms_found = m
              /\ Len(batch.rom_id_arr) = batch.rom_len
              /\ SubSeq(batch.rom_id_arr, 1, m) = SubSeq(EnumOrder(devices), 1, m)
              /\ \A k \in (m + 1)..batch.rom_len : batch.rom_id_arr[k] = CallerRom
       /\ (op.name = "search" /\ start = "batch" /\ batch.rom_len >= 1
           /\ batch.rom_len < n) =>
              /\ res \in {owOK, owERRNODEV}
              /\ res = owOK =>
                     /\ Len(found) > batch.rom_len
                     /\ found = SubSeq(EnumOrder(devices), 1, Len(found))
                     /\ rom_id = EnumOrder(devices)[Len(found)]
              /\ res = owERRNODEV => found = EnumOrder(devices)

C13_Witness ==
    /\ op.name = "search" /\ start = "batch" /\ res = owOK
    /\ batch.rom_len = 1 /\ batch.roms_found = 1 /\ Cardinality(devices) = 3
    /\ Len(found) = 2 /\ rom_id = EnumOrder(devices)[2]

---------------------------------------------------------------------------
(* Properties of error propagation *)

\* C14: a search during which a tx_rx call returned false returns owERRTXRX,
\* and one during which a set_baudrate call returned false returns owERRBAUD.
C14_FailurePropagated ==
    (IsSearch /\ op.fail # 0) =>
        res = IF calls[op.fail].fn = "tx_rx" THEN owERRTXRX ELSE owERRBAUD

---------------------------------------------------------------------------
(* Threads on one session: the wrapping operations step by step, from      *)
(* ow_protect to ow_unprotect                                               *)

\* ow_protect in a build without OW_CFG_OS: no wait, no owner
ow_protect_noos(m, th, protect) == [ok |-> TRUE, mutex |-> m]

\* ow_protect(ow, protect) called by thread th with the mutex at m: ok when
\* ow_sys_mutex_wait returns, mutex the owner afterwards
ow_protect(m, th, protect) ==
    IF protect = 1 THEN [ok |-> m = NoThread, mutex |-> th]
    ELSE [ok |-> TRUE, mutex |-> m]

\* ow_unprotect(ow, protect) called by thread th
ow_unprotect(m, th, protect) == IF protect = 1 /\ m = th THEN NoThread ELSE m

\* the wrapping operations a thread may call, by the position of the first
\* statement after ow_protect
ThreadOps ==
    [reset |-> "reset_baud", write_byte |-> "write_byte",
     search_reset |-> "search_reset", search_with_callback |-> "cb_reset"]

\* the transport calls cs as events of thread th, runs of equal events merged
Events(th, cs) ==
    LET ev == [k \in 1..Len(cs) |->
                  [th |-> th, fn |-> cs[k].fn, rate |-> cs[k].rate, ok |-> cs[k].ok]]
        keep == {k \in 1..Len(cs) : k = 1 \/ ev[k] # ev[k - 1]}
        pos(n) == CHOOSE k \in keep : Cardinality({m \in keep : m < k}) = n - 1
    IN [n \in 1..Cardinality(keep) |-> ev[pos(n)]]

\* trace with the events es appended
Log(trace, es) ==
    IF es # <<>> /\ trace # <<>> /\ trace[Len(trace)] = es[1]
    THEN trace \o Tail(es) ELSE trace \o es

\* the transport as one step of a thread finds it; the one call of the step
\* returns false when ok is FALSE
StepTransport(ok) ==
    NewTransport(baud, NewBus(devices, alarming), IF ok THEN 0 ELSE 1, FALSE, <<>>)

\* thread th moves to pc with its record changed to r, the session mutex to m
\* and the transport to t
ThreadStep(th, r, m, t) ==
    /\ sched' = [mutex |-> m, thr |-> [sched.thr EXCEPT ![th] = r],
                 trace |-> Log(sched.trace, Events(th, t.calls))]
    /\ baud' = t.baud

\* a thread calls a wrapping operation
Begin(th) ==
    /\ sched.thr[th].pc = "idle"
    /\ \E name \in DOMAIN ThreadOps :
           sched' = [sched EXCEPT !.thr[th] = [@ EXCEPT !.pc = "protect", !.name = name]]
    /\ UNCHANGED <<devices, alarming, disrepancy, rom, baud, calls, res, rom_id, br,
                   op, pre, found, start, clean, fresh, faults, batch, life>>

\* ow_protect(ow, 1)
Protect(th) ==
    /\ sched.thr[th].pc = "protect"
    /\ \E g \in {ow_protect(sched.mutex, th, 1)} :
           /\ g.ok
           /\ sched' = [sched EXCEPT !.mutex = g.mutex,
                                     !.thr[th].pc = ThreadOps[sched.thr[th].name]]
    /\ UNCHANGED <<devices, alarming, disrepancy, rom, baud, calls, res, rom_id, br,
                   op, pre, found, start, clean, fresh, faults, batch, life>>

\* ow_reset_raw: set_baudrate(9600)
ResetBaud(th) ==
    /\ sched.thr[th].pc = "reset_baud"
    /\ \E ok \in BOOLEAN :
       \E t \in {set_baudrate(StepTransport(ok), BAUD_RESET)} :
           ThreadStep(th, [sched.thr[th] EXCEPT
                              !.pc = IF t.ok THEN "reset_pulse" ELSE "unprotect",
                              !.res = IF t.ok THEN @ ELSE owERRBAUD],
                      sched.mutex, t)
    /\ UNCHANGED <<devices, alarming, disrepancy, rom, calls, res, rom_id, br,
                   op, pre, found, start, clean, fresh, faults, batch, life>>

\* ow_reset_raw: tx_rx(&b, &b, 1)
ResetPulse(th) ==
    /\ sched.thr[th].pc = "reset_pulse"
    /\ \E ok \in BOOLEAN :
       \E t \in {tx_rx(StepTransport(ok), <<OW_RESET_BYTE>>)} :
           ThreadStep(th, [sched.thr[th] EXCEPT
                              !.pc = IF t.ok THEN "reset_restore" ELSE "unprotect",
                              !.res = IF t.ok THEN @ ELSE owERRTXRX,
                              !.b = IF t.ok THEN t.rx[1] ELSE @],
                      sched.mutex, t)
    /\ UNCHANGED <<devices, alarming, disrepancy, rom, calls, res, rom_id, br,
                   op, pre, found, start, clean, fresh, faults, batch, life>>

\* ow_reset_raw: set_baudrate(115200) and the presence check
ResetRestore(th) ==
    /\ sched.thr[th].pc = "reset_restore"
    /\ \E ok \in BOOLEAN :
       \E t \in {set_baudrate(StepTransport(ok), BAUD_BITS)} :
           ThreadStep(th, [sched.thr[th] EXCEPT
                              !.pc = "unprotect",
                              !.res = IF t.ok THEN PresenceResult(sched.thr[th].b)
                                      ELSE owERRBAUD],
                      sched.mutex, t)
    /\ UNCHANGED <<devices, alarming, disrepancy, rom, calls, res, rom_id, br,
                   op, pre, found, start, clean, fresh, faults, batch, life>>

\* ow_write_byte_ex_raw(ow, btw, br)
WriteByte(th) ==
    /\ sched.thr[th].pc = "write_byte"
    /\ \E ok \in BOOLEAN :
       \E r \in {ow_write_byte_ex_raw(StepTransport(ok), 204, FALSE)} :
           ThreadStep(th, [sched.thr[th] EXCEPT !.pc = "unprotect", !.res = r.res],
                      sched.mutex, r.t)
    /\ UNCHANGED <<devices, alarming, disrepancy, rom, calls, res, rom_id, br,
                   op, pre, found, start, clean, fresh, faults, batch, life>>

\* ow_search_reset_raw(ow), called by ow_search_reset and as the first
\* statement of the batch search
SearchReset(th) ==
    /\ sched.thr[th].pc \in {"search_reset", "cb_reset"}
    /\ \E s \in {ow_search_reset_raw(Session)} :
           /\ disrepancy' = s.disrepancy
           /\ rom' = s.rom
    /\ sched' = [sched EXCEPT
                    !.thr[th].pc = IF @ = "cb_reset" THEN "cb_search" ELSE "unprotect",
                    !.thr[th].res = owOK,
                    !.thr[th].i = 0]
    /\ UNCHANGED <<devices, alarming, baud, calls, res, rom_id, br,
                   op, pre, found, start, clean, fresh, faults, batch, life>>

\* the batch search: one ow_search_with_command_raw pass
CbSearch(th) ==
    /\ sched.thr[th].pc = "cb_search"
    /\ \E r \in {ow_search_with_command_raw(Session, StepTransport(TRUE),
                                            OW_CMD_SEARCHROM, CallerRom)} :
           /\ disrepancy' = r.s.disrepancy
           /\ rom' = r.s.rom
           /\ ThreadStep(th, [sched.thr[th] EXCEPT
                                 !.pc = IF r.res = owOK THEN "cb_visit" ELSE "cb_end",
                                 !.res = r.res],
                         sched.mutex, r.t)
    /\ UNCHANGED <<devices, alarming, calls, res, rom_id, br,
                   op, pre, found, start, clean, fresh, faults, batch, life>>

\* the batch search: func(ow, &rom_id, i, arg), or func(ow, NULL, i, arg)
\* after the loop
CbVisit(th) ==
    /\ sched.thr[th].pc \in {"cb_visit", "cb_end"}
    /\ \E v \in {owOK, owERR} :
           sched' = [sched EXCEPT
               !.trace = Log(@, <<[th |-> th, fn |-> "func", rate |-> 0, ok |-> TRUE]>>),
               !.thr[th] =
                   IF @.pc = "cb_end"
                   THEN [@ EXCEPT !.pc = "unprotect", !.res = BatchResult(sched.thr[th].res)]
                   ELSE IF v # owOK THEN [@ EXCEPT !.pc = "cb_end", !.res = v]
                   ELSE [@ EXCEPT !.pc = "cb_search", !.res = v, !.i = @ + 1]]
    /\ UNCHANGED <<devices, alarming, disrepancy, rom, baud, calls, res, rom_id, br,
                   op, pre, found, start, clean, fresh, faults, batch, life>>

\* ow_unprotect(ow, 1) and the return to the caller
Unprotect(th) ==
    /\ sched.thr[th].pc = "unprotect"
    /\ sched' = [sched EXCEPT !.mutex = ow_unprotect(@, th, 1), !.thr[th].pc = "done"]
    /\ UNCHANGED <<devices, alarming, disrepancy, rom, baud, calls, res, rom_id, br,
                   op, pre, found, start, clean, fresh, faults, batch, life>>

\* one device on the bus, the session just initialised
InitMutex ==
    /\ Init
    /\ devices = {BaseRom}
    /\ alarming = {}
    /\ rom = [i \in 1..8 |-> 0]

NextMutex ==
    \E th \in Threads :
        \/ Begin(th)
        \/ Protect(th)
        \/ ResetBaud(th)
        \/ ResetPulse(th)
        \/ ResetRestore(th)
        \/ WriteByte(th)
        \/ SearchReset(th)
        \/ CbSearch(th)
        \/ CbVisit(th)
        \/ Unprotect(th)

SpecMutex == InitMutex /\ [][NextMutex]_vars

---------------------------------------------------------------------------
(* Properties of the locking *)

\* the thread is between ow_protect and ow_unprotect
InOperation(th) == sched.thr[th].pc \notin {"idle", "protect", "done"}

\* C15: a thread is inside a wrapping operation only while it owns the mutex,
\* and owns it only then, on every path including the error returns; the
\* transport and visitor calls of one operation are never interleaved with
\* those of another: no other thread's call comes between a reset's
\* set_baudrate(9600) and the call that follows it, and the whole batch
\* search, visitor calls included, is one uninterrupted run.
C15_MutualExclusion ==
    /\ \A th \in Threads : InOperation(th) <=> sched.mutex = th
    /\ \A j, k \in 1..Len(sched.trace) :
           (j < k /\ sched.trace[j].th = sched.trace[k].th) =>
               \A m \in j..k : sched.trace[m].th = sched.trace[j].th
    /\ \A j \in 1..(Len(sched.trace) - 1) :
           (sched.trace[j].fn = "set_baudrate" /\ sched.trace[j].rate = BAUD_RESET
            /\ sched.trace[j].ok) =>
               sched.trace[j + 1].th = sched.trace[j].th

C15_Witness ==
    /\ \A th \in Threads : sched.thr[th].pc = "done"
    /\ sched.thr[1].name = "search_with_callback" /\ sched.thr[1].res = owOK
    /\ sched.thr[2].name = "reset" /\ sched.thr[2].res = owERRBAUD
    /\ sched.trace[1].th = 2
    /\ \E j \in 1..Len(sched.trace) :
           sched.trace[j].th = 1 /\ sched.trace[j].fn = "func"

---------------------------------------------------------------------------
(* Properties of search_reset and of the marker after init *)

\* C16: search_reset sets the marker to 0xFF whatever it was, returns owOK,
\* makes no transport call and leaves the working ROM buffer as it is; called
\* on its own result it changes nothing; and the first search after it
\* returns the first device of the enumeration whatever the marker, the
\* buffer and the searches before were.
C16_SearchReset ==
    /\ op.name = "search_reset" =>
           /\ disrepancy = OW_FIRST_DEV
           /\ res = owOK
           /\ calls = <<>>
           /\ rom = pre.rom
           /\ baud = BAUD_BITS
           /\ ow_search_reset_raw(Session) = Session
    /\ (op.name = "search" /\ pre.disrepancy = OW_FIRST_DEV /\ devices # {}) =>
           /\ res = owOK
           /\ rom_id = EnumOrder(devices)[1]
           /\ found = <<rom_id>>

C16_Witness ==
    /\ op.name = "search_reset" /\ pre.disrepancy \notin {OW_FIRST_DEV, OW_LAST_DEV}
    /\ pre.rom \in devices /\ disrepancy = OW_FIRST_DEV

\* C17: after init, before any search or search_reset, the marker is 0xFF.
C17_MarkerAfterInit == op.name = "init" => disrepancy = OW_FIRST_DEV

---------------------------------------------------------------------------
(* Lifecycle: ow_init and ow_deinit.  life.ll_drv is ow->ll_drv ("NULL" or  *)
(* "set"), life.os the build option OW_CFG_OS, life.log the calls made to   *)
(* the transport's init and deinit and to the mutex port, life.before the   *)
(* log before the most recent call, life.deinits the ow_deinit calls on the *)
(* session since the last ow_init.                                          *)

MaxLifeCalls == 6    \* lifecycle calls logged in one behaviour

\* ow_init(ow, ll_drv, arg): initok and mutexok are what ll_drv->init and
\* ow_sys_mutex_create return.  Result: [life, res]
ow_init(l, initok, mutexok) ==
    LET l1 == [l EXCEPT !.ll_drv = "set", !.before = l.log, !.deinits = 0,
                        !.log = Append(l.log, "init")]
    IN IF ~initok THEN [life |-> l1, res |-> owERR]
       ELSE IF l.os /\ ~mutexok
       THEN [life |-> [l1 EXCEPT !.log = l1.log \o <<"mutex_create", "deinit">>],
             res |-> owERR]
       ELSE IF l.os
       THEN [life |-> [l1 EXCEPT !.log = Append(l1.log, "mutex_create")], res |-> owOK]
       ELSE [life |-> l1, res |-> owOK]

\* ow_deinit(ow): null is ow == NULL
ow_deinit(l, null) ==
    IF null THEN [l EXCEPT !.before = l.log]
    ELSE IF l.ll_drv = "NULL" THEN [l EXCEPT !.before = l.log]
    ELSE [l EXCEPT !.before = l.log, !.deinits = @ + 1,
                   !.log = l.log \o (IF l.os THEN <<"mutex_delete">> ELSE <<>>)
                                 \o <<"deinit">>]

\* a session in zeroed memory, ow_init not yet called
InitLife ==
    /\ devices = {}
    /\ alarming = {}
    /\ disrepancy = OW_LAST_DEV
    /\ rom = [i \in 1..8 |-> 0]
    /\ baud = BAUD_BITS
    /\ calls = <<>>
    /\ res = owOK
    /\ rom_id = CallerRom
    /\ br = NullOut
    /\ op = Op("none", 0, FALSE, 0, FALSE)
    /\ pre = [disrepancy |-> disrepancy, rom |-> rom]
    /\ found = <<>>
    /\ start = "init"
    /\ clean = FALSE
    /\ fresh = TRUE
    /\ faults = 0
    /\ batch = NoBatch
    /\ \E os \in BOOLEAN :
           life = [ll_drv |-> "NULL", os |-> os, before |-> <<>>, log |-> <<>>,
                   deinits |-> 0]
    /\ sched = NoSched

\* ow_init(ow, ll_drv, arg)
Init_call ==
    \E initok \in BOOLEAN, mutexok \in BOOLEAN :
        /\ Len(life.log) < MaxLifeCalls
        /\ \E r \in {ow_init(life, initok, mutexok)} :
               /\ life' = r.life
               /\ res' = r.res
        /\ op' = Op("init", 0, FALSE, 0, FALSE)
        /\ UNCHANGED <<devices, alarming, disrepancy, rom, baud, calls, rom_id, br,
                       pre, found, start, clean, fresh, faults, batch, sched>>

\* ow_deinit(ow), ow the session or NULL
Deinit_call ==
    \E null \in BOOLEAN :
        /\ Len(life.log) < MaxLifeCalls
        /\ life' = ow_deinit(life, null)
        /\ op' = Op("deinit", IF null THEN 1 ELSE 0, FALSE, 0, FALSE)
        /\ UNCHANGED <<devices, alarming, disrepancy, rom, baud, calls, res, rom_id, br,
                       pre, found, start, clean, fresh, faults, batch, sched>>

NextLife == Init_call \/ Deinit_call

SpecLife == InitLife /\ [][NextLife]_vars

\* C18: deinit on a session that was deinitialised since its last init calls
\* neither the transport's deinit nor the mutex delete; neither does deinit on
\* a null session or on a session whose driver handle is null.
C18_DeinitNoOp ==
    op.name = "deinit" =>
        /\ (op.arg = 1 \/ life.ll_drv = "NULL") => life.log = life.before
        /\ (op.arg = 0 /\ life.deinits >= 2) => life.log = life.before

---------------------------------------------------------------------------
(* Addressing: ow_match_rom and ow_skip_rom *)

OW_CMD_MATCHROM == 85
OW_CMD_SKIPROM == 204

\* for (i = 0; i < 8; ++i) ow_write_byte_ex_raw(ow, rom_id->rom[i], NULL)
RECURSIVE MatchRomLoop(_, _, _)
MatchRomLoop(t, rom_arg, i) ==
    IF i >= 8 THEN [t |-> t, res |-> owOK]
    ELSE The({IF w.res # owOK THEN [t |-> w.t, res |-> owERR]
              ELSE MatchRomLoop(w.t, rom_arg, i + 1) :
              w \in {ow_write_byte_ex_raw(t, rom_arg[i + 1], FALSE)}})

\* ow_match_rom_raw sending the ROM without the command octet
ow_match_rom_raw_nocmd(t, rom_arg) == MatchRomLoop(t, rom_arg, 0)

\* ow_match_rom_raw(ow, rom_id): [t, res]
ow_match_rom_raw(t, rom_arg) ==
    The({IF w.res # owOK THEN [t |-> w.t, res |-> owERR]
         ELSE MatchRomLoop(w.t, rom_arg, 0) :
         w \in {ow_write_byte_ex_raw(t, OW_CMD_MATCHROM, FALSE)}})

\* ow_skip_rom_raw(ow): [t, res]
ow_skip_rom_raw(t) ==
    The({[t |-> w.t, res |-> w.res] :
         w \in {ow_write_byte_ex_raw(t, OW_CMD_SKIPROM, FALSE)}})

\* the ROMs passed to match_rom
MatchRoms == {BaseRom, CallerRom}

\* the effect of an addressing call with result r and ROM argument rom_arg
SelectEffect(o, r, rom_arg) ==
    /\ baud' = r.t.baud
    /\ calls' = r.t.calls
    /\ res' = r.res
    /\ rom_id' = rom_arg
    /\ op' = o
    /\ pre' = Session
    /\ UNCHANGED <<devices, alarming, disrepancy, rom, br, found, start, clean,
                   fresh, faults, batch, life, sched>>

\* ow_match_rom(ow, rom_id); transport call fail returns false
ow_match_rom ==
    \E rom_arg \in MatchRoms, fail \in 0..9 :
        \E r \in {ow_match_rom_raw(NewTransport(baud, NewBus(devices, alarming), fail,
                                                FALSE, <<>>), rom_arg)} :
            SelectEffect(Op("match_rom", 0, FALSE, fail, FALSE), r, rom_arg)

\* ow_skip_rom(ow)
ow_skip_rom ==
    \E fail \in {0, 1} :
        \E r \in {ow_skip_rom_raw(NewTransport(baud, NewBus(devices, alarming), fail,
                                               FALSE, <<>>))} :
            SelectEffect(Op("skip_rom", 0, FALSE, fail, FALSE), r, rom_id)

InitSelect ==
    /\ Init
    /\ Cardinality(devices) <= 1
    /\ alarming = {}

NextSelect == ow_match_rom \/ ow_skip_rom

SpecSelect == InitSelect /\ [][NextSelect]_vars

\* C19: match_rom with every exchange succeeding makes exactly nine 8-octet
\* exchanges, encoding 0x55 and then ROM octets 0 to 7, each least
\* significant bit first, and no set_baudrate; skip_rom makes exactly one,
\* encoding 0xCC; neither changes the marker or the working ROM buffer.
C19_Addressing ==
    /\ (op.name = "match_rom" /\ op.fail = 0) =>
           /\ res = owOK
           /\ Len(calls) = 9
           /\ \A k \in 1..9 :
                  /\ calls[k].fn = "tx_rx"
                  /\ Len(calls[k].tx) = 8
                  /\ \A i \in 1..8 : calls[k].tx[i] \in {0, 255}
           /\ Decode(calls[1].tx, 1) = 85
           /\ \A i \in 1..8 : Decode(calls[i + 1].tx, 1) = rom_id[i]
    /\ (op.name = "skip_rom" /\ op.fail = 0) =>
           /\ res = owOK
           /\ Len(calls) = 1
           /\ calls[1].fn = "tx_rx"
           /\ Len(calls[1].tx) = 8
           /\ \A i \in 1..8 : calls[1].tx[i] \in {0, 255}
           /\ Decode(calls[1].tx, 1) = 204
    /\ op.name \in {"match_rom", "skip_rom"} =>
           /\ disrepancy = pre.disrepancy
           /\ rom = pre.rom
           /\ baud = BAUD_BITS

C19_Witness ==
    /\ op.name = "match_rom" /\ op.fail = 0 /\ res = owOK /\ rom_id = BaseRom
    /\ Len(calls) = 9 /\ disrepancy = 9

---------------------------------------------------------------------------
(* Properties of the discrepancy rule, read off the transport calls of a   *)
(* search pass: three calls for the reset, one for the command, then for   *)
(* position p = 64..1 the two read slots and the write-back slot           *)

\* the number of the call before the slots of position p
SlotBase(p) == 4 + 3 * (ROM_BITS - p)

\* the positions whose three slots the most recent pass exchanged
Positions == {p \in 1..ROM_BITS : SlotBase(p) + 3 <= Len(calls)}

\* both read slots of position p sampled 0
Collision(p) ==
    /\ calls[SlotBase(p) + 1].rx # <<255>>
    /\ calls[SlotBase(p) + 2].rx # <<255>>

\* the bit written back at position p
Chosen(p) == IF calls[SlotBase(p) + 3].tx = <<255>> THEN 1 ELSE 0

\* the bit the previous pass left in the working ROM buffer for position p
PrevBit(p) == RomBit(pre.rom, ROM_BITS - p)

\* the search pass ran its loop with every transport call succeeding
FullPass == IsSearch /\ op.fail = 0 /\ Len(calls) > 4

\* the lowest and the highest of a set of positions, 0 for none
Lowest(S) == IF S = {} THEN 0 ELSE CHOOSE p \in S : \A q \in S : p <= q
Highest(S) == IF S = {} THEN 0 ELSE CHOOSE p \in S : \A q \in S : p >= q

\* C20 as claimed: where both read slots sample 0 the pass chooses the bit of
\* the previous pass if p < prev, 1 if p = prev, and 0 if p > prev, recording
\* p; the highest recorded position becomes the marker.
C20_RuleAsClaimed ==
    FullPass =>
        /\ \A p \in Positions :
               Collision(p) =>
                   Chosen(p) = IF p < pre.disrepancy THEN PrevBit(p)
                               ELSE IF p = pre.disrepancy THEN 1 ELSE 0
        /\ disrepancy = Highest({p \in Positions : Collision(p) /\ p > pre.disrepancy})

\* C20 as amended: where both read slots sample 0 the pass chooses 1 if
\* p < prev, 0 if p = prev, and the bit of the previous pass if p > prev; it
\* records p wherever it chooses 1 there; the lowest recorded position (the
\* last one recorded) becomes the marker, 0 if none was recorded.
C20_RuleOfTheCode ==
    FullPass =>
        /\ \A p \in Positions :
               Collision(p) =>
                   Chosen(p) = IF p < pre.disrepancy THEN 1
                               ELSE IF p = pre.disrepancy THEN 0 ELSE PrevBit(p)
        /\ disrepancy = Lowest({p \in Positions : Collision(p) /\ Chosen(p) = 1})

C20_Witness ==
    /\ FullPass /\ res = owOK /\ clean /\ Len(found) = 2
    /\ \E p, q \in Positions :
           /\ p > pre.disrepancy /\ Collision(p) /\ Chosen(p) = 1
           /\ q = pre.disrepancy /\ Collision(q) /\ Chosen(q) = 0
    /\ disrepancy > pre.disrepancy

---------------------------------------------------------------------------
(* Properties of one search pass *)

\* C21: a search call that returns owOK made, in this order and nothing else,
\* the three calls of the reset, one 8-octet exchange encoding the command,
\* and for each of the 64 positions three single-octet exchanges: 0xFF, 0xFF,
\* and 0xFF or 0x00 for the chosen bit; the k-th chosen bit is bit (k mod 8)
\* of octet (k div 8) of the ROM handed to the caller; and a pass that ended
\* with owERRTXRX before its last exchange left the marker as it was.
C21_PassOrder ==
    /\ (IsSearch /\ res = owOK) =>
           /\ Len(calls) = 4 + 3 * ROM_BITS
           /\ calls[1].fn = "set_baudrate" /\ calls[1].rate = 9600
           /\ calls[2].fn = "tx_rx" /\ calls[2].tx = <<240>>
           /\ calls[3].fn = "set_baudrate" /\ calls[3].rate = 115200
           /\ calls[4].fn = "tx_rx" /\ Len(calls[4].tx) = 8
           /\ \A i \in 1..8 : calls[4].tx[i] \in {0, 255}
           /\ Decode(calls[4].tx, 1) = op.arg
           /\ op.name = "search" => op.arg = 240
           /\ \A k \in 0..(ROM_BITS - 1) :
                  LET base == 4 + 3 * k IN
                  /\ \A n \in 1..3 : calls[base + n].fn = "tx_rx"
                  /\ calls[base + 1].tx = <<255>>
                  /\ calls[base + 2].tx = <<255>>
                  /\ calls[base + 3].tx \in {<<255>>, <<0>>}
                  /\ (rom_id[(k \div 8) + 1] \div (2 ^ (k % 8))) % 2
                         = IF calls[base + 3].tx = <<255>> THEN 1 ELSE 0
    /\ (IsSearch /\ res = owERRTXRX) => disrepancy = pre.disrepancy

C21_Witness ==
    /\ op.name = "search" /\ res = owOK /\ op.fail = 0
    /\ Cardinality(devices) = 3 /\ Len(found) = 2 /\ Len(calls) = 196
    /\ rom_id \in devices

\* the most recent search call ended at a position whose two read slots both
\* sampled 1
AbortedPass ==
    /\ IsSearch /\ Len(calls) > 4 /\ (Len(calls) - 4) % 3 = 2
    /\ calls[Len(calls) - 1].ok /\ calls[Len(calls) - 1].rx = <<255>>
    /\ calls[Len(calls)].ok /\ calls[Len(calls)].rx = <<255>>

\* a position of the most recent search call whose read slots both sampled 1
\* is the last one exchanged, no bit is written back, and the call returns
\* owERRNODEV
AbortStops ==
    IsSearch =>
        /\ \A k \in 0..(ROM_BITS - 1) :
               (/\ 4 + 3 * k + 2 <= Len(calls)
                /\ calls[4 + 3 * k + 1].ok /\ calls[4 + 3 * k + 1].rx = <<255>>
                /\ calls[4 + 3 * k + 2].ok /\ calls[4 + 3 * k + 2].rx = <<255>>)
               => Len(calls) = 4 + 3 * k + 2
        /\ AbortedPass => res = owERRNODEV
        /\ (res = owERRNODEV /\ Len(calls) > 0) => AbortedPass

\* C22: a pass in which both read slots of a position sample 1 issues no
\* further exchange and returns owERRNODEV, and the caller's ROM is written
\* only by a pass that consumed all 64 positions.
C22_AbortPass ==
    /\ AbortStops
    /\ (IsSearch /\ rom_id # CallerRom) =>
           (res = owOK /\ Len(calls) = 4 + 3 * ROM_BITS)

\* the transport calls of a search pass whose failure the pass reports: the
\* three calls of the reset and the read slots of the first, the second and
\* the ninth position
ReportedFailPoints == {1, 2, 3, 5, 6, 8, 29, 30}

\* ow_search(ow, rom_id) where one transport call whose result is checked
\* returns false
ow_search_transient ==
    \E fail \in ReportedFailPoints :
        /\ faults < MaxFaults
        /\ SearchCall("search", OW_CMD_SEARCHROM, fail, FALSE)

\* an enumeration by ow_search in which a call fails and is retried
NextRetry == ow_search_reset \/ ow_search \/ ow_search_transient

SpecRetry == Init /\ [][NextRetry]_vars

\* a search call that failed for the transport left the session as it was
RetryKeepsState ==
    (IsSearch /\ res \in {owERRTXRX, owERRBAUD, owERRPRESENCE}) =>
        (disrepancy = pre.disrepancy /\ rom = pre.rom)

\* an enumeration begun by ow_search_reset on a bus where both search commands
\* address the same devices, retried after every failure, has returned every
\* device exactly once when a pass leaves the marker at OW_LAST_DEV
RetryEnumerates ==
    (start = "reset" /\ IsSearch) =>
        /\ Distinct(found)
        /\ (res = owOK /\ disrepancy = OW_LAST_DEV) => SeqSet(found) = devices

\* C23: a search call that returns owERRTXRX, owERRBAUD or owERRPRESENCE
\* leaves the discrepancy marker and the working ROM buffer as they were
\* before the call, so that a retry continues the enumeration unharmed.
C23_RetryState == RetryKeepsState /\ RetryEnumerates

---------------------------------------------------------------------------
(* The baud rate across operations: resets that may fail, followed by byte, *)
(* bit and addressing calls on the same transport                           *)

\* the octets the UART samples for the reset pulse: a device answering, none
ResetSamples == {224, OW_RESET_BYTE}

\* the octets written by write_byte: CONVERT T and READ SCRATCHPAD
WriteOctets == {68, 190}

\* ow_reset(ow); transport call fail returns false
Reset_call ==
    \E sample \in ResetSamples, fail \in 0..3 :
        \E r \in {ow_reset_raw(NewTransport(baud, NewBus(devices, alarming), fail,
                                            FALSE, <<sample>>))} :
            EngineEffect(Op("reset", sample, FALSE, fail, FALSE), r, NullOut)

\* ow_write_byte_ex(ow, btw, br) with the octet looped back
WriteByte_call ==
    \E btw \in WriteOctets, want \in BOOLEAN, fail \in {0, 1} :
        \E r \in {ow_write_byte_ex_raw(
                     NewTransport(baud, NewBus(devices, alarming), fail, FALSE,
                                  Script(btw, 0)),
                     btw, want)} :
            EngineEffect(Op("write_byte", btw, want, fail, FALSE), r, r.br)

\* ow_read_byte_ex(ow, br)
ReadByte_call ==
    \E mask \in WriteOctets, fail \in {0, 1} :
        \E r \in {ow_read_byte_ex_raw(
                     NewTransport(baud, NewBus(devices, alarming), fail, FALSE,
                                  Script(mask, 0)))} :
            EngineEffect(Op("read_byte", 255, TRUE, fail, FALSE), r, r.br)

\* ow_read_bit_ex(ow, br)
ReadBit_call ==
    \E sample \in {0, 255}, fail \in {0, 1} :
        \E r \in {ow_read_bit_ex_raw(
                     NewTransport(baud, NewBus(devices, alarming), fail, FALSE,
                                  <<sample>>))} :
            EngineEffect(Op("read_bit", 1, TRUE, fail, FALSE), r, r.btr)

NextBaud ==
    \/ Reset_call
    \/ WriteByte_call
    \/ ReadByte_call
    \/ ReadBit_call
    \/ ow_match_rom
    \/ ow_skip_rom

SpecBaud == InitSelect /\ [][NextBaud]_vars

\* the operations that exchange octets without a reset
ByteOps == {"write_byte", "read_byte", "read_bit", "match_rom", "skip_rom"}

\* C24: a reset whose tx_rx fails returns owERRTXRX after two transport calls,
\* without set_baudrate(115200), leaving the transport at 9600 baud; a byte,
\* bit or addressing call makes only tx_rx calls, at the rate the transport
\* was left at, and leaves that rate; only a reset whose three calls succeed
\* brings the transport back to 115200.
C24_BaudSticks ==
    [][/\ (op'.name = "reset" /\ op'.fail = 2) =>
              /\ res' = owERRTXRX /\ Len(calls') = 2 /\ baud' = BAUD_RESET
              /\ calls'[1].fn = "set_baudrate" /\ calls'[1].rate = BAUD_RESET
              /\ calls'[2].fn = "tx_rx" /\ calls'[2].rate = BAUD_RESET
       /\ op'.name \in ByteOps =>
              /\ baud' = baud
              /\ Len(calls') > 0
              /\ \A i \in 1..Len(calls') :
                     calls'[i].fn = "tx_rx" /\ calls'[i].rate = baud
       /\ (op'.name = "reset" /\ baud = BAUD_RESET /\ baud' = BAUD_BITS) =>
              (op'.fail = 0 /\ res' \in {owOK, owERRPRESENCE})
      ]_vars

C24_Witness ==
    /\ op.name = "match_rom" /\ op.fail = 0 /\ res = owOK
    /\ baud = BAUD_RESET /\ Len(calls) = 9
    /\ \A i \in 1..9 : calls[i].rate = BAUD_RESET

---------------------------------------------------------------------------
(* Wrapping operations when ow_sys_mutex_wait fails *)

\* the wrapper returning the result of ow_protect when it is not owOK
AfterProtect_checked(name, r) == IF r = owOK THEN ThreadOps[name] ELSE "done"

\* the statement a wrapping operation executes after ow_protect(ow, 1)
\* returned r: the result is discarded
AfterProtect(name, r) == ThreadOps[name]

\* ow_protect(ow, 1) where ow_sys_mutex_wait returns 0: ow_protect returns
\* owERR and the mutex stays with its owner
ProtectFails(th) ==
    /\ sched.thr[th].pc = "protect"
    /\ sched' = [sched EXCEPT !.thr[th].pc = AfterProtect(sched.thr[th].name, owERR)]
    /\ UNCHANGED <<devices, alarming, disrepancy, rom, baud, calls, res, rom_id, br,
                   op, pre, found, start, clean, fresh, faults, batch, life>>

\* the caller whose ow_sys_mutex_wait may fail and the thread that may hold
\* the mutex meanwhile
Contenders == {1, 2}

NextLockFail ==
    \E th \in Contenders :
        \/ Begin(th)
        \/ Protect(th)
        \/ ProtectFails(th)
        \/ ResetBaud(th)
        \/ ResetPulse(th)
        \/ ResetRestore(th)
        \/ WriteByte(th)
        \/ SearchReset(th)
        \/ CbSearch(th)
        \/ CbVisit(th)
        \/ Unprotect(th)

SpecLockFail == InitMutex /\ [][NextLockFail]_vars

\* C25: a wrapping operation whose ow_protect did not acquire the mutex goes
\* on to its raw operation without reporting a result, a wrapping operation
\* returns only through ow_unprotect and with the result the raw operation
\* left, a finished reset or write_byte has made its transport calls, and
\* owERR is never the result of reset, write_byte or search_reset.
C25_LockResultIgnored ==
    [][\A th \in Contenders :
          LET a == sched.thr[th]
              b == sched'.thr[th]
          IN /\ (a.pc = "protect" /\ b.pc # "protect" /\ sched'.mutex # th) =>
                    /\ b.pc = ThreadOps[a.name]
                    /\ b.res = a.res
                    /\ sched'.mutex = sched.mutex
             /\ (b.pc = "done" /\ a.pc # "done") =>
                    /\ a.pc = "unprotect"
                    /\ b.res = a.res
                    /\ b.name \in {"reset", "write_byte"} =>
                           \E k \in 1..Len(sched'.trace) : sched'.trace[k].th = th
                    /\ b.name # "search_with_callback" => b.res # owERR
      ]_vars

\* a thread has finished a reset with owOK on the bus after the first
\* transport call of the thread that still holds the mutex
C25_Witness ==
    \E th \in Contenders, o \in Contenders :
        /\ th # o /\ sched.mutex = o /\ InOperation(o)
        /\ sched.thr[th].pc = "done" /\ sched.thr[th].name = "reset"
        /\ sched.thr[th].res = owOK
        /\ \E i, j \in 1..Len(sched.trace) :
               i < j /\ sched.trace[i].th = o /\ sched.trace[j].th = th

====
